---- MODULE Spec2Model ----
(***************************************************************************)
(* Blog authoring page (hosted-table variants and the file-backed API) of  *)
(* HumanitariansAi: slug derivation, the composer, the post list, the      *)
(* optimistic delete and the file-backed GET/POST route.                   *)
(*                                                                         *)
(* Text is modelled as a sequence of one-character strings, so that the    *)
(* regular-expression steps of generateSlug act on characters.             *)
(***************************************************************************)
EXTENDS Integers, Sequences, FiniteSets, TLC

VARIABLES
    slugIn,      \* the string handed to generateSlug
    slugOnce,    \* generateSlug(slugIn)
    slugTwice,   \* generateSlug(generateSlug(slugIn))
    slugPc,      \* how many times generateSlug has been applied (0, 1, 2)
    blogFile,    \* data/blogPosts.json: whether it can be read, and its text
    postReqs,    \* the POST requests the route has received, in order of arrival
    getRes,      \* the response of the latest GET (after: history, the number of
                 \* POSTs that had been answered 200 when it was served)
    okPosts,     \* history: the posts whose POST was answered 200, in that order
    filePage,    \* the file-backed page: its blogPosts state and its fetch on mount
    uploader,    \* which upload helper runs: "uploadToBucket" or "uploadImageAndGetUrl"
    fileName,    \* file.name of the file handed to the upload helper
    storedPath,  \* the path the helper stores the file under, ext its last part
    pathPc,      \* 0 before the helper has built the path, 1 after
    variant,     \* which version of the page runs: "tiptap", "quill" or "upload"
    blogPosts,   \* useState: the in-memory list of posts
    loading,     \* useState
    submitting,  \* useState
    deletingId,  \* useState: NullId for null
    errorMsg,    \* useState: Null for null (the upload version has no such state)
    alertMsg,    \* the text of the latest alert() (upload version), Null if none
    title,       \* form field (newBlog.title in the upload version)
    slug,        \* form field (newBlog.slug)
    author,      \* form field (newBlog.author)
    category,    \* form field (newBlog.category)
    editor,      \* the text held by the Tiptap editor
    content,     \* useState content (Quill: HTML) or newBlog.content (upload: plain text)
    coverFile,   \* useState coverFile / file: TRUE when a file is selected
    date,        \* form field (newBlog.date): a day, EmptyDate for ''
    excerpt,     \* form field (newBlog.excerpt)
    coverUrl,    \* useState coverUrl of the Tiptap and Quill versions: a pasted URL
    lastInput,   \* history: the latest change event on the title or slug input
    fetch,       \* the fetchBlogs call started on mount
    submits,     \* the handleSubmit calls that passed validation, in order (uploads,
                 \* inserts: history, how many requests of each kind the call sent)
    deletes,     \* the handleDelete calls that were confirmed, in order (seen:
                 \* history, the list on screen when Remove was clicked; requests:
                 \* history, how many delete requests the call sent)
    declined,    \* history: the ids of the handleDelete calls that returned before
                 \* doing anything (no id, or the confirm dialog declined)
    blogsTable,  \* the hosted table 'blogs', rows in insertion order
    bucket       \* the cover bucket: the paths of the stored objects

slugVars == <<slugIn, slugOnce, slugTwice, slugPc>>

fileVars == <<blogFile, postReqs, getRes, okPosts, filePage>>

formVars == <<title, slug, author, category, editor, content, coverFile, date, excerpt,
              coverUrl, lastInput>>

viewVars == <<blogPosts, loading, submitting, deletingId, errorMsg, alertMsg>>

callVars == <<fetch, submits, deletes, declined>>

backendVars == <<blogsTable, bucket>>

pageVars == <<variant, formVars, viewVars, callVars, backendVars>>

pathVars == <<uploader, fileName, storedPath, pathPc>>

vars == <<slugVars, fileVars, pageVars, pathVars>>

(***************************************************************************)
(* Characters                                                              *)
(***************************************************************************)
UpperLetters == <<"A","B","C","D","E","F","G","H","I","J","K","L","M",
                  "N","O","P","Q","R","S","T","U","V","W","X","Y","Z">>

LowerLetters == <<"a","b","c","d","e","f","g","h","i","j","k","l","m",
                  "n","o","p","q","r","s","t","u","v","w","x","y","z">>

Digits == {"0","1","2","3","4","5","6","7","8","9"}

Range(f) == {f[i] : i \in DOMAIN f}

\* \s of the regular expressions, and the characters String.trim removes
IsWhitespace(c) == c \in {" ", "\t", "\n"}

\* \w of the regular expressions: [A-Za-z0-9_]
IsWordChar(c) == c \in Range(UpperLetters) \cup Range(LowerLetters) \cup Digits \cup {"_"}

\* a character the class [^\w\s] (hyphen forgotten) would keep
IsSlugCharNoHyphen(c) == IsWordChar(c) \/ IsWhitespace(c)

\* a character that [^\w\s-] does not match, i.e. one the first replace keeps
IsSlugChar(c) == IsWordChar(c) \/ IsWhitespace(c) \/ c = "-"

toLowerCaseChar(c) ==
    IF c \in Range(UpperLetters)
    THEN LowerLetters[CHOOSE i \in DOMAIN UpperLetters : UpperLetters[i] = c]
    ELSE c

\* String.prototype.toLowerCase
toLowerCase(s) == [i \in 1..Len(s) |-> toLowerCaseChar(s[i])]

RECURSIVE trimStart(_)
trimStart(s) ==
    IF s # <<>> /\ IsWhitespace(Head(s)) THEN trimStart(Tail(s)) ELSE s

RECURSIVE trimEnd(_)
trimEnd(s) ==
    IF s # <<>> /\ IsWhitespace(s[Len(s)]) THEN trimEnd(SubSeq(s, 1, Len(s) - 1)) ELSE s

\* String.prototype.trim
trim(s) == trimEnd(trimStart(s))

\* .replace(/[^\w\s-]/g, ''): every match is deleted, scanning left to right
RECURSIVE removeNonSlugChars(_)
removeNonSlugChars(s) ==
    IF s = <<>> THEN <<>>
    ELSE IF IsSlugChar(Head(s)) THEN <<Head(s)>> \o removeNonSlugChars(Tail(s))
    ELSE removeNonSlugChars(Tail(s))

\* .replace(/\s+/g, '-'): each match is a maximal run of whitespace (the
\* quantifier is greedy), replaced by one hyphen
RECURSIVE hyphenateWhitespace(_)
hyphenateWhitespace(s) ==
    IF s = <<>> THEN <<>>
    ELSE IF IsWhitespace(Head(s)) THEN <<"-">> \o hyphenateWhitespace(trimStart(s))
    ELSE <<Head(s)>> \o hyphenateWhitespace(Tail(s))

\* the same chain with trim applied after the characters are removed
generateSlugTrimLate(s) ==
    hyphenateWhitespace(trim(removeNonSlugChars(toLowerCase(s))))

\* generateSlug: s.toLowerCase().trim().replace(/[^\w\s-]/g, '').replace(/\s+/g, '-')
generateSlug(s) ==
    hyphenateWhitespace(removeNonSlugChars(trim(toLowerCase(s))))

(***************************************************************************)
(* Slug derivation as a pure function: the input is drawn from all strings *)
(* over SlugAlphabet of length at most MaxSlugLen, and from the example of *)
(* the specification; generateSlug is applied once and then once more to   *)
(* its own result.                                                         *)
(***************************************************************************)
MaxSlugLen == 3

SlugAlphabet == {"A", "a", "1", "_", " ", "\t", "-", "!"}

HelloWorld2024 == <<"H","e","l","l","o",","," ","W","o","r","l","d","!"," "," ","2","0","2","4">>

HelloWorld2024Slug == <<"h","e","l","l","o","-","w","o","r","l","d","-","2","0","2","4">>

SlugInputs ==
    UNION {[1..n -> SlugAlphabet] : n \in 0..MaxSlugLen} \cup {HelloWorld2024}

SlugInit ==
    /\ slugIn \in SlugInputs
    /\ slugOnce = <<>>
    /\ slugTwice = <<>>
    /\ slugPc = 0

\* the slug subsystem at rest, for the specifications that do not exercise it
SlugIdle ==
    /\ slugIn = <<>>
    /\ slugOnce = <<>>
    /\ slugTwice = <<>>
    /\ slugPc = 0

DeriveSlug ==
    /\ slugPc = 0
    /\ slugOnce' = generateSlug(slugIn)
    /\ slugPc' = 1
    /\ UNCHANGED <<slugIn, slugTwice>>
    /\ UNCHANGED <<fileVars, pageVars, pathVars>>

DeriveSlugAgain ==
    /\ slugPc = 1
    /\ slugTwice' = generateSlug(slugOnce)
    /\ slugPc' = 2
    /\ UNCHANGED <<slugIn, slugOnce>>
    /\ UNCHANGED <<fileVars, pageVars, pathVars>>

SlugNext == DeriveSlug \/ DeriveSlugAgain

(***************************************************************************)
(* The file-backed route (GET and POST over data/blogPosts.json).          *)
(*                                                                         *)
(* JSON text is a sequence of tokens. A post is an object with an id and a *)
(* title; a JSON value is an array of posts or a single object (a value    *)
(* that is valid JSON and no array).                                       *)
(***************************************************************************)
MaxPosts == 2

MaxPostId == 2

PostObjects == [id : 1..MaxPostId, title : {"T"}]

ArrayValue(items) == [kind |-> "array", items |-> items, post |-> <<>>]

ObjectValue(p) == [kind |-> "object", items |-> <<>>, post |-> <<p>>]

stringifyPost(p) == <<"{", ToString(p.id), p.title, "}">>

RECURSIVE stringifyItems(_)
stringifyItems(items) ==
    IF items = <<>> THEN <<>>
    ELSE IF Len(items) = 1 THEN stringifyPost(items[1])
    ELSE stringifyPost(items[1]) \o <<",">> \o stringifyItems(Tail(items))

\* JSON.stringify(value, null, 2)
JSONstringify(v) ==
    IF v.kind = "array" THEN <<"[">> \o stringifyItems(v.items) \o <<"]">>
    ELSE stringifyPost(v.post[1])

SyntaxError == [ok |-> FALSE, value |-> ArrayValue(<<>>)]

Parsed(v) == [ok |-> TRUE, value |-> v]

IsPostText(t) ==
    /\ Len(t) = 4
    /\ t[1] = "{"
    /\ t[4] = "}"
    /\ \E p \in PostObjects : stringifyPost(p) = t

parsePost(t) == CHOOSE p \in PostObjects : stringifyPost(p) = t

\* the elements of an array text between its brackets: objects separated by commas
RECURSIVE parseItems(_)
parseItems(t) ==
    IF Len(t) < 4 \/ ~IsPostText(SubSeq(t, 1, 4)) THEN SyntaxError
    ELSE IF Len(t) = 4 THEN Parsed(ArrayValue(<<parsePost(t)>>))
    ELSE IF Len(t) < 9 \/ t[5] # "," THEN SyntaxError
    ELSE LET rest == parseItems(SubSeq(t, 6, Len(t)))
         IN  IF rest.ok
             THEN Parsed(ArrayValue(<<parsePost(SubSeq(t, 1, 4))>> \o rest.value.items))
             ELSE SyntaxError

\* an array that drops what it held and keeps only the pushed element
pushOverwrite(items, x) == <<x>>

\* an array that takes the new element at its head
pushFront(items, x) == <<x>> \o items

\* Array.prototype.push
push(items, x) == Append(items, x)

\* JSON.parse: the value of a well-formed text, or a SyntaxError
JSONparse(t) ==
    IF IsPostText(t) THEN Parsed(ObjectValue(parsePost(t)))
    ELSE IF Len(t) >= 2 /\ t[1] = "[" /\ t[Len(t)] = "]"
    THEN IF Len(t) = 2 THEN Parsed(ArrayValue(<<>>))
         ELSE parseItems(SubSeq(t, 2, Len(t) - 1))
    ELSE SyntaxError

\* fs.readFileSync(blogFilePath, 'utf-8') throws when the file cannot be read
ReadableFile(text) == [readable |-> TRUE, text |-> text]

MissingFile == [readable |-> FALSE, text |-> <<>>]

SeedPost == [id |-> 1, title |-> "T"]

\* what the file may hold when the server starts
InitialFiles ==
    { MissingFile,
      ReadableFile(JSONstringify(ArrayValue(<<>>))),
      ReadableFile(JSONstringify(ArrayValue(<<SeedPost>>))),
      ReadableFile(JSONstringify(ObjectValue(SeedPost))),
      ReadableFile(<<"[", "{">>) }

\* the request bodies a client may send: a post, or text that is no JSON
RequestBodies == {stringifyPost(p) : p \in PostObjects} \cup {<<"{">>}

NoResponse == [status |-> 0, body |-> ArrayValue(<<>>), after |-> 0]

\* { error: 'Failed to load blogs' }: a JSON object that is no array
ErrorBody == [kind |-> "error", items |-> <<>>, post |-> <<>>]

FileInit ==
    /\ blogFile \in InitialFiles
    /\ postReqs = <<>>
    /\ getRes = NoResponse
    /\ okPosts = <<>>
    /\ filePage = [pc |-> "fetch", res |-> NoResponse, blogPosts |-> ArrayValue(<<>>)]

\* the route at rest, for the specifications that do not exercise it
FileIdle ==
    /\ blogFile = MissingFile
    /\ postReqs = <<>>
    /\ getRes = NoResponse
    /\ okPosts = <<>>
    /\ filePage = [pc |-> "done", res |-> NoResponse, blogPosts |-> ArrayValue(<<>>)]

\* the response of GET: the parsed file, or 500 with an error object on any throw
GETresponse ==
    IF ~blogFile.readable \/ ~JSONparse(blogFile.text).ok
    THEN [status |-> 500, body |-> ErrorBody, after |-> Len(okPosts)]
    ELSE [status |-> 200, body |-> JSONparse(blogFile.text).value, after |-> Len(okPosts)]

\* GET requested by any client
GET ==
    /\ getRes' = GETresponse
    /\ UNCHANGED <<blogFile, postReqs, okPosts, filePage>>
    /\ UNCHANGED <<slugVars, pageVars, pathVars>>

\* the effect of the file-backed page: fetch("/api/blogs") is answered by GET
pageFetch ==
    /\ filePage.pc = "fetch"
    /\ filePage' = [filePage EXCEPT !.pc = "json", !.res = GETresponse]
    /\ UNCHANGED <<blogFile, postReqs, getRes, okPosts>>
    /\ UNCHANGED <<slugVars, pageVars, pathVars>>

\* .then((res) => res.json()).then((data) => setBlogPosts(data)): the body is
\* stored whatever the status and whatever its shape
pageSetBlogPosts ==
    /\ filePage.pc = "json"
    /\ filePage' = [filePage EXCEPT !.pc = "done", !.blogPosts = filePage.res.body]
    /\ UNCHANGED <<blogFile, postReqs, getRes, okPosts>>
    /\ UNCHANGED <<slugVars, pageVars, pathVars>>

\* POST up to 'await req.json()': the request is suspended on its body
POST(body) ==
    /\ Len(postReqs) < MaxPosts
    /\ postReqs' = Append(postReqs, [body |-> body, pc |-> "json", status |-> 0])
    /\ UNCHANGED <<blogFile, getRes, okPosts, filePage>>
    /\ UNCHANGED <<slugVars, pageVars, pathVars>>

\* a POST that pushes onto the array it read when it was received: what the
\* requests that arrived after it have saved since is not in that array
POSTresumeStaleRead(i, writeOk) ==
    /\ i \in DOMAIN postReqs
    /\ postReqs[i].pc = "json"
    /\ LET newBlog == JSONparse(postReqs[i].body)
           blogs == JSONparse(blogFile.text)
           later == Cardinality({j \in DOMAIN postReqs : j > i /\ postReqs[j].status = 200})
           thrown == \/ ~newBlog.ok
                     \/ ~blogFile.readable
                     \/ ~blogs.ok
                     \/ blogs.value.kind # "array"
                     \/ ~writeOk
       IN  IF thrown
           THEN /\ postReqs' = [postReqs EXCEPT ![i].pc = "done", ![i].status = 500]
                /\ UNCHANGED <<blogFile, okPosts>>
           ELSE /\ blogFile' = ReadableFile(JSONstringify(ArrayValue(
                                   push(SubSeq(blogs.value.items, 1,
                                               Len(blogs.value.items) - later),
                                        newBlog.value.post[1]))))
                /\ postReqs' = [postReqs EXCEPT ![i].pc = "done", ![i].status = 200]
                /\ okPosts' = Append(okPosts, newBlog.value.post[1])
    /\ UNCHANGED <<getRes, filePage>>
    /\ UNCHANGED <<slugVars, pageVars, pathVars>>

\* a POST that, finding no array in the file, starts the file afresh with an
\* empty array before it answers 500
POSTresumeResetting(i, writeOk) ==
    /\ i \in DOMAIN postReqs
    /\ postReqs[i].pc = "json"
    /\ LET newBlog == JSONparse(postReqs[i].body)
           blogs == JSONparse(blogFile.text)
           noArray == \/ ~blogFile.readable
                      \/ ~blogs.ok
                      \/ blogs.value.kind # "array"
           thrown == ~newBlog.ok \/ noArray \/ ~writeOk
       IN  IF thrown
           THEN /\ postReqs' = [postReqs EXCEPT ![i].pc = "done", ![i].status = 500]
                /\ blogFile' = IF noArray
                               THEN ReadableFile(JSONstringify(ArrayValue(<<>>)))
                               ELSE blogFile
                /\ UNCHANGED okPosts
           ELSE /\ blogFile' = ReadableFile(JSONstringify(
                                   ArrayValue(push(blogs.value.items, newBlog.value.post[1]))))
                /\ postReqs' = [postReqs EXCEPT ![i].pc = "done", ![i].status = 200]
                /\ okPosts' = Append(okPosts, newBlog.value.post[1])
    /\ UNCHANGED <<getRes, filePage>>
    /\ UNCHANGED <<slugVars, pageVars, pathVars>>

\* POST after 'await req.json()': read, parse, push, write and answer, in one
\* synchronous run; writeOk is whether fs.writeFileSync succeeds (when it
\* throws, the file is left as it was)
POSTresume(i, writeOk) ==
    /\ i \in DOMAIN postReqs
    /\ postReqs[i].pc = "json"
    /\ LET newBlog == JSONparse(postReqs[i].body)
           blogs == JSONparse(blogFile.text)
           thrown == \/ ~newBlog.ok
                     \/ ~blogFile.readable
                     \/ ~blogs.ok
                     \/ blogs.value.kind # "array"
                     \/ ~writeOk
       IN  IF thrown
           THEN /\ postReqs' = [postReqs EXCEPT ![i].pc = "done", ![i].status = 500]
                /\ UNCHANGED <<blogFile, okPosts>>
           ELSE /\ blogFile' = ReadableFile(JSONstringify(
                                   ArrayValue(push(blogs.value.items, newBlog.value.post[1]))))
                /\ postReqs' = [postReqs EXCEPT ![i].pc = "done", ![i].status = 200]
                /\ okPosts' = Append(okPosts, newBlog.value.post[1])
    /\ UNCHANGED <<getRes, filePage>>
    /\ UNCHANGED <<slugVars, pageVars, pathVars>>

FileNext ==
    \/ GET
    \/ pageFetch
    \/ pageSetBlogPosts
    \/ \E body \in RequestBodies : POST(body)
    \/ \E i \in 1..MaxPosts, writeOk \in BOOLEAN : POSTresume(i, writeOk)

(***************************************************************************)
(* The page: the Tiptap version (src/app/blog/page.tsx 1-368), the Quill   *)
(* version (page.tsx 652-1040) and the upload version (part_001 1-219).    *)
(* They share the state and the handlers below and differ where `variant`  *)
(* is tested. An awaited request suspends its handler: each call of        *)
(* fetchBlogs, handleSubmit and handleDelete is a record that holds what   *)
(* the call captured and how far it has got; the backend answers in a step *)
(* of its own, and the handler resumes in a later step.                    *)
(***************************************************************************)
Variants == {"tiptap", "quill", "upload"}

\* null of a number | null state
NullId == 0

\* null of a string | null state
Null == "null"

AUTHOR_OPTIONS == <<"Jane Smith", "Alex Johnson", "Taylor Lee">>

CATEGORY_OPTIONS == <<"education", "healthcare", "social", "technology", "research">>

\* new Date().toISOString().split('T')[0]: the current day
Today == 3

\* the value '' of the date input
EmptyDate == 0

\* !s for a string s
Falsy(s) == Len(s) = 0

\* editor.getHTML(): the document as HTML; an empty document is one empty paragraph
getHTML(doc) == <<"<p>">> \o doc \o <<"</p>">>

\* the HTML ReactQuill hands to onChange; an empty document is <p><br></p>
quillHTML(doc) == IF doc = <<>> THEN <<"<p>", "<br>", "</p>">> ELSE <<"<p>">> \o doc \o <<"</p>">>

\* the initial value of the author and category fields
DefaultAuthor == IF variant = "upload" THEN "" ELSE AUTHOR_OPTIONS[1]

DefaultCategory == IF variant = "upload" THEN "" ELSE CATEGORY_OPTIONS[1]

\* error.message of a failed backend call
ErrorMessage == "error.message"

FillRequiredMessage == "Please fill all required fields."

UploadFailedAlert == "Failed to upload image. Please try again."

\* what the user may type or choose
MaxSubmits == 2

MaxDeletes == 2

\* how many handleDelete calls that return early are recorded
MaxDeclines == 1

TitleTyped == {<<>>, <<"A">>, <<"!">>}

SlugTyped == {<<>>, <<"X">>}

TextTyped == {<<>>, <<"x">>}

\* the days the date input may be set to: cleared, or a day before the seeds'
DateTyped == {EmptyDate, 1}

ExcerptTyped == {<<>>, <<"e">>}

CoverUrlTyped == {"", "u"}

AuthorTyped == IF variant = "upload" THEN {"", AUTHOR_OPTIONS[1]}
               ELSE {AUTHOR_OPTIONS[1], AUTHOR_OPTIONS[2]}

CategoryTyped == IF variant = "upload" THEN {"", CATEGORY_OPTIONS[1]}
                 ELSE {CATEGORY_OPTIONS[1], CATEGORY_OPTIONS[2]}

\* the rows the table holds when the page is opened
SeedRow(n) ==
    [id |-> n, title |-> <<"S">>, slug |-> <<"s">>, author |-> AUTHOR_OPTIONS[1],
     category |-> CATEGORY_OPTIONS[1], content |-> <<"<p>", "s", "</p>">>,
     date |-> n, excerpt |-> <<>>, image |-> <<>>]

NumSeeds == 2

InitialTable == [n \in 1..NumSeeds |-> SeedRow(n)]

Ids(rows) == {rows[k].id : k \in DOMAIN rows}

\* .order('date', { ascending: false })
IsDateDescending(rows) == \A k \in 1..(Len(rows) - 1) : rows[k].date >= rows[k + 1].date

\* the orders in which select('*').order('date', ...) may return the rows; the
\* order of rows with equal dates is the database's choice
SelectResults(rows) ==
    {data \in [1..Len(rows) -> Range(rows)] :
        /\ \A k \in DOMAIN rows : \E j \in DOMAIN data : data[j] = rows[k]
        /\ IsDateDescending(data)}

\* a filter that also drops every post listed before the one with the id
filterOutThrough(cur, id) ==
    IF \E k \in DOMAIN cur : cur[k].id = id
    THEN SubSeq(cur, (CHOOSE k \in DOMAIN cur : cur[k].id = id) + 1, Len(cur))
    ELSE cur

\* cur.filter((p) => p.id !== id)
filterOut(cur, id) == SelectSeq(cur, LAMBDA p : p.id # id)

NoInput == [name |-> "none", value |-> <<>>]

PageInit ==
    /\ variant \in Variants
    /\ blogPosts = <<>>
    /\ loading = TRUE
    /\ submitting = FALSE
    /\ deletingId = NullId
    /\ errorMsg = Null
    /\ alertMsg = Null
    /\ title = <<>>
    /\ slug = generateSlug(<<>>)
    /\ author = DefaultAuthor
    /\ category = DefaultCategory
    /\ editor = <<>>
    /\ content = <<>>
    /\ coverFile = FALSE
    /\ date = Today
    /\ excerpt = <<>>
    /\ coverUrl = ""
    /\ lastInput = NoInput
    /\ fetch = [pc |-> "select", error |-> FALSE, data |-> <<>>]
    /\ submits = <<>>
    /\ deletes = <<>>
    /\ declined = <<>>
    /\ blogsTable = InitialTable
    /\ bucket = {}

\* the page not opened, for the specifications that do not exercise it
PageIdle ==
    /\ variant = "tiptap"
    /\ blogPosts = <<>>
    /\ loading = FALSE
    /\ submitting = FALSE
    /\ deletingId = NullId
    /\ errorMsg = Null
    /\ alertMsg = Null
    /\ title = <<>>
    /\ slug = <<>>
    /\ author = ""
    /\ category = ""
    /\ editor = <<>>
    /\ content = <<>>
    /\ coverFile = FALSE
    /\ date = Today
    /\ excerpt = <<>>
    /\ coverUrl = ""
    /\ lastInput = NoInput
    /\ fetch = [pc |-> "done", error |-> FALSE, data |-> <<>>]
    /\ submits = <<>>
    /\ deletes = <<>>
    /\ declined = <<>>
    /\ blogsTable = <<>>
    /\ bucket = {}

UNCHANGED_OTHERS == UNCHANGED <<slugVars, fileVars, pathVars, variant>>

(***************************************************************************)
(* Form fields                                                             *)
(***************************************************************************)
\* Title input of the Tiptap and Quill versions: setTitle, then the effect on
\* [title] runs setSlug(generateSlug(title))
setTitle(v) ==
    /\ variant # "upload"
    /\ v # title
    /\ title' = v
    /\ slug' = generateSlug(v)
    /\ lastInput' = [name |-> "title", value |-> v]
    /\ UNCHANGED <<author, category, editor, content, coverFile>>
    /\ UNCHANGED <<date, excerpt, coverUrl>>
    /\ UNCHANGED <<viewVars, callVars, backendVars>>
    /\ UNCHANGED_OTHERS

\* Slug input of the Tiptap and Quill versions
setSlug(v) ==
    /\ variant # "upload"
    /\ v # slug
    /\ slug' = v
    /\ lastInput' = [name |-> "slug", value |-> v]
    /\ UNCHANGED <<title, author, category, editor, content, coverFile>>
    /\ UNCHANGED <<date, excerpt, coverUrl>>
    /\ UNCHANGED <<viewVars, callVars, backendVars>>
    /\ UNCHANGED_OTHERS

\* the author and category selects of the Tiptap and Quill versions
setAuthor(v) ==
    /\ variant # "upload"
    /\ author' = v
    /\ UNCHANGED <<title, slug, category, editor, content, coverFile, lastInput>>
    /\ UNCHANGED <<date, excerpt, coverUrl>>
    /\ UNCHANGED <<viewVars, callVars, backendVars>>
    /\ UNCHANGED_OTHERS

setCategory(v) ==
    /\ variant # "upload"
    /\ category' = v
    /\ UNCHANGED <<title, slug, author, editor, content, coverFile, lastInput>>
    /\ UNCHANGED <<date, excerpt, coverUrl>>
    /\ UNCHANGED <<viewVars, callVars, backendVars>>
    /\ UNCHANGED_OTHERS

\* typing in the rich-text editor: the Tiptap editor holds the text, ReactQuill
\* calls setContent with its HTML
editText(doc) ==
    /\ variant # "upload"
    /\ IF variant = "tiptap"
       THEN editor' = doc /\ UNCHANGED content
       ELSE content' = quillHTML(doc) /\ UNCHANGED editor
    /\ UNCHANGED <<title, slug, author, category, coverFile, lastInput>>
    /\ UNCHANGED <<date, excerpt, coverUrl>>
    /\ UNCHANGED <<viewVars, callVars, backendVars>>
    /\ UNCHANGED_OTHERS

\* the slug after handleChange: { ...prev, [name]: value, slug: name === 'title' ?
\* generateSlug(value) : prev.slug }; the slug key comes last and wins
slugAfterChange(name, value) ==
    IF name = "title" THEN generateSlug(value) ELSE slug

\* handleChange of the upload version, for the inputs named title, slug, author,
\* category, excerpt and content
handleChange(name, value) ==
    /\ variant = "upload"
    /\ title' = IF name = "title" THEN value ELSE title
    /\ author' = IF name = "author" THEN value ELSE author
    /\ category' = IF name = "category" THEN value ELSE category
    /\ content' = IF name = "content" THEN value ELSE content
    /\ excerpt' = IF name = "excerpt" THEN value ELSE excerpt
    /\ slug' = slugAfterChange(name, value)
    /\ lastInput' = IF name \in {"title", "slug"} THEN [name |-> name, value |-> value]
                    ELSE lastInput
    /\ UNCHANGED <<editor, coverFile, date, coverUrl>>
    /\ UNCHANGED <<viewVars, callVars, backendVars>>
    /\ UNCHANGED_OTHERS

\* the date input of the Tiptap and Quill versions
setDate(v) ==
    /\ variant # "upload"
    /\ date' = v
    /\ UNCHANGED <<title, slug, author, category, editor, content, coverFile, lastInput>>
    /\ UNCHANGED <<excerpt, coverUrl>>
    /\ UNCHANGED <<viewVars, callVars, backendVars>>
    /\ UNCHANGED_OTHERS

\* the excerpt input of the Tiptap and Quill versions
setExcerpt(v) ==
    /\ variant # "upload"
    /\ excerpt' = v
    /\ UNCHANGED <<title, slug, author, category, editor, content, coverFile, lastInput>>
    /\ UNCHANGED <<date, coverUrl>>
    /\ UNCHANGED <<viewVars, callVars, backendVars>>
    /\ UNCHANGED_OTHERS

\* the "paste a cover image URL" input of the Tiptap and Quill versions
setCoverUrl(v) ==
    /\ variant # "upload"
    /\ coverUrl' = v
    /\ UNCHANGED <<title, slug, author, category, editor, content, coverFile, lastInput>>
    /\ UNCHANGED <<date, excerpt>>
    /\ UNCHANGED <<viewVars, callVars, backendVars>>
    /\ UNCHANGED_OTHERS

\* the file input: setCoverFile / handleFileChange
setCoverFile(f) ==
    /\ coverFile' = f
    /\ UNCHANGED <<title, slug, author, category, editor, content, lastInput>>
    /\ UNCHANGED <<date, excerpt, coverUrl>>
    /\ UNCHANGED <<viewVars, callVars, backendVars>>
    /\ UNCHANGED_OTHERS

(***************************************************************************)
(* fetchBlogs (the effect that runs on mount; PageInit is the state after  *)
(* its setLoading(true) and the sending of the select)                     *)
(***************************************************************************)
\* the hosted table answers the select: an error, or the rows by date descending
answerSelect(ok) ==
    /\ fetch.pc = "select"
    /\ IF ok
       THEN \E data \in SelectResults(blogsTable) :
                fetch' = [pc |-> "answered", error |-> FALSE, data |-> data]
       ELSE fetch' = [pc |-> "answered", error |-> TRUE, data |-> <<>>]
    /\ UNCHANGED <<submits, deletes, declined>>
    /\ UNCHANGED <<formVars, viewVars, backendVars>>
    /\ UNCHANGED_OTHERS

\* fetchBlogs after the await
fetchBlogs ==
    /\ fetch.pc = "answered"
    /\ IF fetch.error
       THEN /\ errorMsg' = IF variant = "upload" THEN errorMsg ELSE ErrorMessage
            /\ UNCHANGED blogPosts
       ELSE /\ blogPosts' = fetch.data
            /\ UNCHANGED errorMsg
    /\ loading' = FALSE
    /\ fetch' = [fetch EXCEPT !.pc = "done"]
    /\ UNCHANGED <<submitting, deletingId, alertMsg>>
    /\ UNCHANGED <<submits, deletes, declined>>
    /\ UNCHANGED <<formVars, backendVars>>
    /\ UNCHANGED_OTHERS

(***************************************************************************)
(* handleSubmit                                                            *)
(***************************************************************************)
\* the HTML or text that the required-field test and the payload read
currentContent == IF variant = "tiptap" THEN getHTML(editor) ELSE content

\* the required-field test without the submitting flag
isDisabledIgnoringSubmitting ==
    \/ Falsy(title) \/ Falsy(slug) \/ Falsy(author) \/ Falsy(category)
    \/ Falsy(currentContent)

\* isDisabled (Tiptap) / isSubmittingDisabled (Quill)
isDisabled ==
    \/ submitting
    \/ Falsy(title) \/ Falsy(slug) \/ Falsy(author) \/ Falsy(category)
    \/ Falsy(currentContent)

\* the test at the head of handleSubmit of the upload version
missingRequired ==
    Falsy(title) \/ Falsy(slug) \/ Falsy(content) \/ Falsy(category) \/ Falsy(author)

\* the disabled attribute of the Publish / Add Blog button
buttonDisabled == IF variant = "upload" THEN submitting ELSE isDisabled

\* an early return that also refuses a slug that a listed post already has
rejectedDuplicateSlug ==
    \/ IF variant = "upload" THEN missingRequired ELSE isDisabled
    \/ \E k \in DOMAIN blogPosts : blogPosts[k].slug = slug

\* the early return of handleSubmit
rejected == IF variant = "upload" THEN missingRequired ELSE isDisabled

\* handleSubmit when validation fails: the upload version alerts, the Quill version
\* sets the message, the Tiptap version returns
handleSubmitRejected ==
    /\ ~buttonDisabled
    /\ rejected
    /\ alertMsg' = IF variant = "upload"
                   THEN "Please fill in all required fields (title, slug, content, category, author)."
                   ELSE alertMsg
    /\ errorMsg' = IF variant = "quill" THEN FillRequiredMessage ELSE errorMsg
    /\ UNCHANGED <<blogPosts, loading, submitting, deletingId>>
    /\ UNCHANGED <<formVars, callVars, backendVars>>
    /\ UNCHANGED_OTHERS

\* a call that has returned holds nothing any more
NoPayload ==
    [title |-> <<>>, slug |-> <<>>, author |-> "", category |-> "",
     content |-> <<>>, date |-> 0, excerpt |-> <<>>, image |-> <<>>]

\* a date key that carries the date field as it is
dateAsTyped(d) == d

\* date || new Date().toISOString().split('T')[0]
dateOrToday(d) == IF d = EmptyDate THEN Today ELSE d

\* ...(excerpt ? { excerpt } : {}): the key with its value, or no key
excerptKey(e) == IF Falsy(e) THEN <<>> ELSE <<e>>

\* ...(finalCover ? { image: finalCover } : {}); undefined and '' are both falsy
imageKey(url) == IF url = "" THEN <<>> ELSE <<url>>

\* the manual cover URL that applies when no file is uploaded: coverUrl ||
\* undefined (Tiptap), else if (coverUrl) (Quill); the upload version has none
manualCover == IF variant = "upload" THEN "" ELSE coverUrl

\* the public URL uploadToBucket / uploadImageAndGetUrl returns for the object
\* stored by the i-th call
publicUrl(i) == <<"public/1", "public/2", "public/3", "public/4">>[i]

\* the payload as far as handleSubmit knows it when it is called
payloadAtClick ==
    [title |-> title, slug |-> slug, author |-> author, category |-> category,
     content |-> currentContent, date |-> dateOrToday(date),
     excerpt |-> excerptKey(excerpt), image |-> imageKey(manualCover)]

\* a handleSubmit that sends the insert at once although a cover file is selected
startSubmitNoAwait == [pc |-> "insert", payload |-> payloadAtClick, file |-> coverFile,
                       upload |-> "none", insert |-> "sent", data |-> <<>>,
                       uploads |-> 0, inserts |-> 1]

\* the call record after handleSubmit has run to its first await
startSubmit ==
    IF coverFile
    THEN [pc |-> "upload", payload |-> payloadAtClick, file |-> TRUE,
          upload |-> "sent", insert |-> "none", data |-> <<>>,
          uploads |-> 1, inserts |-> 0]
    ELSE [pc |-> "insert", payload |-> payloadAtClick, file |-> FALSE,
          upload |-> "none", insert |-> "sent", data |-> <<>>,
          uploads |-> 0, inserts |-> 1]

\* handleSubmit up to its first await: the cover upload when a file is selected,
\* else the insert
handleSubmit ==
    /\ ~buttonDisabled
    /\ ~rejected
    /\ Len(submits) < MaxSubmits
    /\ errorMsg' = IF variant = "upload" THEN errorMsg ELSE Null
    /\ submitting' = TRUE
    /\ submits' = Append(submits, startSubmit)
    /\ UNCHANGED <<blogPosts, loading, deletingId, alertMsg>>
    /\ UNCHANGED <<fetch, deletes, declined>>
    /\ UNCHANGED <<formVars, backendVars>>
    /\ UNCHANGED_OTHERS

\* the cover upload succeeded: uploadToBucket returns the public URL of the path
\* it stored, the payload is completed (the Tiptap version reads the editor only
\* now) and the insert is sent
uploadDone(i) ==
    /\ i \in DOMAIN submits
    /\ submits[i].pc = "upload"
    /\ bucket' = bucket \cup {i}
    /\ submits' = [submits EXCEPT
            ![i].pc = "insert",
            ![i].upload = "ok",
            ![i].insert = "sent",
            ![i].inserts = @ + 1,
            ![i].payload.image = imageKey(publicUrl(i)),
            ![i].payload.content = IF variant = "tiptap" THEN getHTML(editor) ELSE @]
    /\ UNCHANGED blogsTable
    /\ UNCHANGED <<fetch, deletes, declined>>
    /\ UNCHANGED <<formVars, viewVars>>
    /\ UNCHANGED_OTHERS

\* a handleSubmit that gives up on a failed upload and leaves submitting set
uploadFailedStillSubmitting(i) ==
    /\ i \in DOMAIN submits
    /\ submits[i].pc = "upload"
    /\ submits' = [submits EXCEPT ![i].pc = "done", ![i].upload = "error",
                                  ![i].payload = NoPayload]
    /\ errorMsg' = IF variant = "upload" THEN errorMsg ELSE ErrorMessage
    /\ alertMsg' = IF variant = "upload" THEN UploadFailedAlert ELSE alertMsg
    /\ UNCHANGED <<blogPosts, loading, submitting, deletingId>>
    /\ UNCHANGED <<fetch, deletes, declined>>
    /\ UNCHANGED <<formVars, backendVars>>
    /\ UNCHANGED_OTHERS

\* the cover upload failed: handleSubmit gives up
uploadFailed(i) ==
    /\ i \in DOMAIN submits
    /\ submits[i].pc = "upload"
    /\ submits' = [submits EXCEPT ![i].pc = "done", ![i].upload = "error",
                                  ![i].payload = NoPayload]
    /\ submitting' = FALSE
    /\ errorMsg' = IF variant = "upload" THEN errorMsg ELSE ErrorMessage
    /\ alertMsg' = IF variant = "upload" THEN UploadFailedAlert ELSE alertMsg
    /\ UNCHANGED <<blogPosts, loading, deletingId>>
    /\ UNCHANGED <<fetch, deletes, declined>>
    /\ UNCHANGED <<formVars, backendVars>>
    /\ UNCHANGED_OTHERS

\* the id the table gives the next inserted row
nextId == NumSeeds + 1 + Cardinality({k \in DOMAIN submits : submits[k].insert = "ok"})

\* what insert([payload]).select() may resolve to: the inserted row; an error;
\* or no error and no row (data is an empty array, the insert having stored
\* nothing that the select returns)
InsertOutcomes == {"ok", "error", "empty"}

\* the hosted table answers the insert
answerInsert(i, outcome) ==
    /\ i \in DOMAIN submits
    /\ submits[i].pc = "insert"
    /\ submits[i].insert = "sent"
    /\ LET p == submits[i].payload
           row == [id |-> nextId, title |-> p.title, slug |-> p.slug, author |-> p.author,
                   category |-> p.category, content |-> p.content, date |-> p.date,
                   excerpt |-> p.excerpt, image |-> p.image]
       IN  IF outcome = "ok"
           THEN /\ blogsTable' = Append(blogsTable, row)
                /\ submits' = [submits EXCEPT ![i].insert = "ok", ![i].data = <<row>>]
           ELSE /\ UNCHANGED blogsTable
                /\ submits' = [submits EXCEPT ![i].insert = outcome]
    /\ UNCHANGED bucket
    /\ UNCHANGED <<fetch, deletes, declined>>
    /\ UNCHANGED <<formVars, viewVars>>
    /\ UNCHANGED_OTHERS

\* data![0] of an empty array is undefined
UndefinedRow ==
    [id |-> NullId, title |-> <<>>, slug |-> <<>>, author |-> "", category |-> "",
     content |-> <<>>, date |-> 0, excerpt |-> <<>>, image |-> <<>>]

dataOrUndefined(data) == IF data = <<>> THEN <<UndefinedRow>> ELSE data

\* setBlogPosts((prev) => [data[0] as BlogPost, ...prev])
withNewRow(data, prev) == <<data[1]>> \o prev

\* handleSubmit after the insert was answered
handleSubmitResume(i) ==
    /\ i \in DOMAIN submits
    /\ submits[i].pc = "insert"
    /\ submits[i].insert \in InsertOutcomes
    /\ submits' = [submits EXCEPT ![i].pc = "done", ![i].payload = NoPayload,
                                  ![i].data = <<>>]
    /\ submitting' = FALSE
    /\ IF submits[i].insert = "error"
       THEN /\ errorMsg' = IF variant = "upload" THEN errorMsg ELSE ErrorMessage
            /\ alertMsg' = IF variant = "upload" THEN ErrorMessage ELSE alertMsg
            /\ UNCHANGED blogPosts
            /\ UNCHANGED formVars
       ELSE IF submits[i].insert = "empty" /\ variant # "upload"
       THEN \* if (data && data[0]) is false: nothing more is done
            /\ UNCHANGED <<errorMsg, alertMsg, blogPosts>>
            /\ UNCHANGED formVars
       ELSE /\ blogPosts' = withNewRow(dataOrUndefined(submits[i].data), blogPosts)
            /\ title' = <<>>
            /\ slug' = <<>>
            /\ author' = DefaultAuthor
            /\ category' = DefaultCategory
            /\ editor' = <<>>
            /\ content' = <<>>
            /\ coverFile' = FALSE
            /\ date' = Today
            /\ excerpt' = <<>>
            /\ coverUrl' = ""
            /\ lastInput' = [name |-> "title", value |-> <<>>]
            /\ UNCHANGED <<errorMsg, alertMsg>>
    /\ UNCHANGED <<loading, deletingId>>
    /\ UNCHANGED <<fetch, deletes, declined>>
    /\ UNCHANGED backendVars
    /\ UNCHANGED_OTHERS

(***************************************************************************)
(* handleDelete (Tiptap and Quill versions)                                *)
(***************************************************************************)
\* a list without the post, whatever list the call saw
restoredFiltered(prev, id) == filterOut(prev, id)

\* setBlogPosts(prev): the list the call captured
restored(prev, id) == prev

\* a handleDelete that takes the post out of the list before it asks
handleDeleteFilterFirst(id, yes) ==
    /\ variant # "upload"
    /\ ~loading
    /\ id \in Ids(blogPosts)
    /\ deletingId # id
    /\ blogPosts' = filterOut(blogPosts, id)
    /\ IF id = NullId \/ ~yes
       THEN /\ Len(declined) < MaxDeclines
            /\ declined' = Append(declined, id)
            /\ UNCHANGED <<loading, submitting, deletingId, errorMsg, alertMsg>>
            /\ UNCHANGED <<fetch, submits, deletes>>
       ELSE /\ Len(deletes) < MaxDeletes
            /\ deletingId' = id
            /\ deletes' = Append(deletes, [id |-> id, prev |-> blogPosts, seen |-> blogPosts,
                                           pc |-> "delete", answer |-> "sent",
                                           requests |-> 1])
            /\ UNCHANGED <<loading, submitting, errorMsg, alertMsg>>
            /\ UNCHANGED <<fetch, submits, declined>>
    /\ UNCHANGED <<formVars, backendVars>>
    /\ UNCHANGED_OTHERS

\* handleDelete(post.id) from the Remove button of a listed post; yes is the
\* answer to confirm(). The list is rendered only when loading is false, and
\* the button is disabled while deletingId is the post's id.
handleDelete(id, yes) ==
    /\ variant # "upload"
    /\ ~loading
    /\ id \in Ids(blogPosts)
    /\ deletingId # id
    /\ IF id = NullId \/ ~yes
       THEN /\ Len(declined) < MaxDeclines
            /\ declined' = Append(declined, id)
            /\ UNCHANGED viewVars
            /\ UNCHANGED <<fetch, submits, deletes>>
       ELSE /\ Len(deletes) < MaxDeletes
            /\ deletingId' = id
            /\ blogPosts' = filterOut(blogPosts, id)
            /\ deletes' = Append(deletes, [id |-> id, prev |-> blogPosts, seen |-> blogPosts,
                                           pc |-> "delete", answer |-> "sent",
                                           requests |-> 1])
            /\ UNCHANGED <<loading, submitting, errorMsg, alertMsg>>
            /\ UNCHANGED <<fetch, submits, declined>>
    /\ UNCHANGED <<formVars, backendVars>>
    /\ UNCHANGED_OTHERS

\* the hosted table answers the delete-by-id: done (also when no row has the id),
\* or an error that leaves the table as it was
answerDelete(i, ok) ==
    /\ i \in DOMAIN deletes
    /\ deletes[i].answer = "sent"
    /\ blogsTable' = IF ok THEN filterOut(blogsTable, deletes[i].id) ELSE blogsTable
    /\ deletes' = [deletes EXCEPT ![i].answer = IF ok THEN "ok" ELSE "error"]
    /\ UNCHANGED bucket
    /\ UNCHANGED <<fetch, submits, declined>>
    /\ UNCHANGED <<formVars, viewVars>>
    /\ UNCHANGED_OTHERS

\* a handleDelete that sends its delete once more when it failed
handleDeleteResumeRetrying(i) ==
    /\ i \in DOMAIN deletes
    /\ deletes[i].pc = "delete"
    /\ deletes[i].answer \in {"ok", "error"}
    /\ IF deletes[i].answer = "error" /\ deletes[i].requests < 2
       THEN /\ deletes' = [deletes EXCEPT ![i].answer = "sent", ![i].requests = @ + 1]
            /\ UNCHANGED <<deletingId, errorMsg, blogPosts>>
       ELSE /\ deletes' = [deletes EXCEPT ![i].pc = "done", ![i].prev = <<>>,
                                          ![i].seen = <<>>]
            /\ deletingId' = NullId
            /\ UNCHANGED <<errorMsg, blogPosts>>
    /\ UNCHANGED <<loading, submitting, alertMsg>>
    /\ UNCHANGED <<fetch, submits, declined>>
    /\ UNCHANGED <<formVars, backendVars>>
    /\ UNCHANGED_OTHERS

\* handleDelete after the await
handleDeleteResume(i) ==
    /\ i \in DOMAIN deletes
    /\ deletes[i].pc = "delete"
    /\ deletes[i].answer \in {"ok", "error"}
    /\ deletes' = [deletes EXCEPT ![i].pc = "done", ![i].prev = <<>>, ![i].seen = <<>>]
    /\ deletingId' = NullId
    /\ IF deletes[i].answer = "error"
       THEN /\ errorMsg' = ErrorMessage
            /\ blogPosts' = restored(deletes[i].prev, deletes[i].id)
       ELSE UNCHANGED <<errorMsg, blogPosts>>
    /\ UNCHANGED <<loading, submitting, alertMsg>>
    /\ UNCHANGED <<fetch, submits, declined>>
    /\ UNCHANGED <<formVars, backendVars>>
    /\ UNCHANGED_OTHERS

\* the form: every field the user edits, and a click that validation rejects
FormNext ==
    \/ \E v \in TitleTyped : setTitle(v)
    \/ \E v \in SlugTyped : setSlug(v)
    \/ \E v \in AuthorTyped : setAuthor(v)
    \/ \E v \in CategoryTyped : setCategory(v)
    \/ \E doc \in TextTyped : editText(doc)
    \/ \E v \in TitleTyped : handleChange("title", v)
    \/ \E v \in SlugTyped : handleChange("slug", v)
    \/ \E v \in AuthorTyped : handleChange("author", v)
    \/ \E v \in CategoryTyped : handleChange("category", v)
    \/ \E v \in TextTyped : handleChange("content", v)
    \/ \E f \in BOOLEAN : setCoverFile(f)
    \/ handleSubmitRejected

\* the composer: the fields the required-field test reads (each filled or
\* emptied), the cover file, the submit and its requests
ComposeNext ==
    \/ \E v \in {<<>>, <<"A">>} : setTitle(v)
    \/ \E v \in SlugTyped : setSlug(v)
    \/ \E doc \in TextTyped : editText(doc)
    \/ \E v \in {<<>>, <<"A">>} : handleChange("title", v)
    \/ \E v \in AuthorTyped : handleChange("author", v)
    \/ \E v \in CategoryTyped : handleChange("category", v)
    \/ \E v \in TextTyped : handleChange("content", v)
    \/ \E f \in BOOLEAN : setCoverFile(f)
    \/ handleSubmitRejected
    \/ handleSubmit
    \/ \E i \in 1..MaxSubmits : uploadDone(i)
    \/ \E i \in 1..MaxSubmits : uploadFailed(i)
    \/ \E i \in 1..MaxSubmits, outcome \in InsertOutcomes : answerInsert(i, outcome)
    \/ \E i \in 1..MaxSubmits : handleSubmitResume(i)

\* how many creates are followed when every optional field varies
MaxPayloads == 1

\* the payload: a filled form with every choice of date, excerpt, pasted cover
\* URL and cover file, and the creates
PayloadNext ==
    \/ setTitle(<<"A">>)
    \/ editText(<<"x">>)
    \/ handleChange("title", <<"A">>)
    \/ handleChange("author", AUTHOR_OPTIONS[1])
    \/ handleChange("category", CATEGORY_OPTIONS[1])
    \/ handleChange("content", <<"x">>)
    \/ \E v \in ExcerptTyped : handleChange("excerpt", v)
    \/ \E v \in DateTyped : setDate(v)
    \/ \E v \in ExcerptTyped : setExcerpt(v)
    \/ \E v \in CoverUrlTyped : setCoverUrl(v)
    \/ \E f \in BOOLEAN : setCoverFile(f)
    \/ Len(submits) < MaxPayloads /\ handleSubmit
    \/ \E i \in 1..MaxSubmits : uploadDone(i)
    \/ \E i \in 1..MaxSubmits : uploadFailed(i)
    \/ \E i \in 1..MaxSubmits, outcome \in InsertOutcomes : answerInsert(i, outcome)
    \/ \E i \in 1..MaxSubmits : handleSubmitResume(i)

\* the Remove button: the load, and deletes that the user confirms or declines
RemoveNext ==
    \/ \E ok \in BOOLEAN : answerSelect(ok)
    \/ fetchBlogs
    \/ \E id \in 1..NumSeeds, yes \in BOOLEAN : handleDelete(id, yes)
    \/ \E i \in 1..MaxDeletes, ok \in BOOLEAN : answerDelete(i, ok)
    \/ \E i \in 1..MaxDeletes : handleDeleteResume(i)

\* the order of the list: the load, creates with a chosen date, and deletes
OrderNext ==
    \/ setTitle(<<"A">>)
    \/ editText(<<"x">>)
    \/ \E v \in DateTyped : setDate(v)
    \/ \E ok \in BOOLEAN : answerSelect(ok)
    \/ fetchBlogs
    \/ Len(submits) < MaxPayloads /\ handleSubmit
    \/ \E i \in 1..MaxSubmits, outcome \in InsertOutcomes : answerInsert(i, outcome)
    \/ \E i \in 1..MaxSubmits : handleSubmitResume(i)
    \/ \E id \in 1..(NumSeeds + MaxSubmits) : handleDelete(id, TRUE)
    \/ \E i \in 1..MaxDeletes, ok \in BOOLEAN : answerDelete(i, ok)
    \/ \E i \in 1..MaxDeletes : handleDeleteResume(i)

\* the list: the load, creates of one fixed post, and deletes
ListNext ==
    \/ setTitle(<<"A">>)
    \/ editText(<<"x">>)
    \/ handleChange("title", <<"A">>)
    \/ handleChange("author", AUTHOR_OPTIONS[1])
    \/ handleChange("category", CATEGORY_OPTIONS[1])
    \/ handleChange("content", <<"x">>)
    \/ \E ok \in BOOLEAN : answerSelect(ok)
    \/ fetchBlogs
    \/ handleSubmit
    \/ \E i \in 1..MaxSubmits, outcome \in InsertOutcomes : answerInsert(i, outcome)
    \/ \E i \in 1..MaxSubmits : handleSubmitResume(i)
    \/ \E id \in 1..(NumSeeds + MaxSubmits) : handleDelete(id, TRUE)
    \/ \E i \in 1..MaxDeletes, ok \in BOOLEAN : answerDelete(i, ok)
    \/ \E i \in 1..MaxDeletes : handleDeleteResume(i)

(***************************************************************************)
(* The storage path of an uploaded file: uploadToBucket (Tiptap and Quill  *)
(* versions) and uploadImageAndGetUrl (upload version). A path is the      *)
(* sequence of its parts; Date.now() and the random suffix are tokens.     *)
(***************************************************************************)
MaxNameLen == 3

NameAlphabet == {"A", "g", "."}

FileNames == UNION {[1..n -> NameAlphabet] : n \in 0..MaxNameLen}

Uploaders == {"uploadToBucket", "uploadImageAndGetUrl"}

\* name.split('.').pop(): what follows the last dot, the whole name when it
\* holds no dot
RECURSIVE splitPop(_)
splitPop(name) ==
    IF \E k \in DOMAIN name : name[k] = "."
    THEN splitPop(Tail(name))
    ELSE name

\* 'dat' (uploadToBucket) or 'jpg' (uploadImageAndGetUrl), as one token
defaultExt(u) == IF u = "uploadToBucket" THEN <<"dat">> ELSE <<"jpg">>

\* (file.name.split('.').pop() || 'dat').toLowerCase() and
\* file.name.split('.').pop()?.toLowerCase() || 'jpg'
extOf(u, name) ==
    IF splitPop(name) = <<>> THEN defaultExt(u) ELSE toLowerCase(splitPop(name))

\* `${prefix}/${Date.now()}-${random}.${ext}` and `blogs/${slug}-${Date.now()}.${ext}`
pathOf(u, name) ==
    IF u = "uploadToBucket"
    THEN [parts |-> <<"prefix", "/", "Date.now()", "-", "random", ".">>, ext |-> extOf(u, name)]
    ELSE [parts |-> <<"blogs/", "slug", "-", "Date.now()", ".">>, ext |-> extOf(u, name)]

NoPath == [parts |-> <<>>, ext |-> <<>>]

PathInit ==
    /\ uploader \in Uploaders
    /\ fileName \in FileNames
    /\ storedPath = NoPath
    /\ pathPc = 0

\* no upload helper running, for the specifications that do not exercise it
PathIdle ==
    /\ uploader = "uploadToBucket"
    /\ fileName = <<>>
    /\ storedPath = NoPath
    /\ pathPc = 0

\* the helper up to its upload request: ext and path are built
buildPath ==
    /\ pathPc = 0
    /\ storedPath' = pathOf(uploader, fileName)
    /\ pathPc' = 1
    /\ UNCHANGED <<uploader, fileName>>
    /\ UNCHANGED <<slugVars, fileVars, pageVars>>

PathNext == buildPath

(***************************************************************************)
(* Specifications                                                          *)
(***************************************************************************)
PathSpecInit == SlugIdle /\ FileIdle /\ PageIdle /\ PathInit

PathSpec == PathSpecInit /\ [][PathNext]_vars

SlugSpecInit == SlugInit /\ FileIdle /\ PageIdle /\ PathIdle

SlugSpec == SlugSpecInit /\ [][SlugNext]_vars

FileSpecInit == SlugIdle /\ FileInit /\ PageIdle /\ PathIdle

FileSpec == FileSpecInit /\ [][FileNext]_vars

FormInit == SlugIdle /\ FileIdle /\ PageInit /\ PathIdle

FormSpec == FormInit /\ [][FormNext]_vars

ComposeInit == SlugIdle /\ FileIdle /\ PageInit /\ PathIdle

ComposeSpec == ComposeInit /\ [][ComposeNext]_vars

Init == SlugIdle /\ FileIdle /\ PageInit /\ PathIdle

Next == ListNext

\* the whole page: the load, creates of one fixed post with or without a cover
\* file (the editor left empty), and deletes of the posts that were loaded
PageNext ==
    \/ setTitle(<<"A">>)
    \/ handleChange("title", <<"A">>)
    \/ handleChange("author", AUTHOR_OPTIONS[1])
    \/ handleChange("category", CATEGORY_OPTIONS[1])
    \/ handleChange("content", <<"x">>)
    \/ setCoverFile(TRUE)
    \/ \E ok \in BOOLEAN : answerSelect(ok)
    \/ fetchBlogs
    \/ handleSubmit
    \/ \E i \in 1..MaxSubmits : uploadDone(i)
    \/ \E i \in 1..MaxSubmits : uploadFailed(i)
    \/ \E i \in 1..MaxSubmits, outcome \in InsertOutcomes : answerInsert(i, outcome)
    \/ \E i \in 1..MaxSubmits : handleSubmitResume(i)
    \/ \E id \in 1..NumSeeds : handleDelete(id, TRUE)
    \/ \E i \in 1..MaxDeletes, ok \in BOOLEAN : answerDelete(i, ok)
    \/ \E i \in 1..MaxDeletes : handleDeleteResume(i)

\* every request is answered in the end, and a handler whose awaited request
\* was answered runs on
Answered ==
    /\ WF_vars(\E ok \in BOOLEAN : answerSelect(ok))
    /\ WF_vars(fetchBlogs)
    /\ WF_vars(\E i \in 1..MaxSubmits : uploadDone(i) \/ uploadFailed(i))
    /\ WF_vars(\E i \in 1..MaxSubmits, outcome \in InsertOutcomes : answerInsert(i, outcome))
    /\ WF_vars(\E i \in 1..MaxSubmits : handleSubmitResume(i))
    /\ WF_vars(\E i \in 1..MaxDeletes, ok \in BOOLEAN : answerDelete(i, ok))
    /\ WF_vars(\E i \in 1..MaxDeletes : handleDeleteResume(i))

\* the Tiptap and Quill versions, which have the date input
OrderInit == SlugIdle /\ FileIdle /\ PageInit /\ PathIdle /\ variant # "upload"

OrderSpec == OrderInit /\ [][OrderNext]_vars

RemoveInit == SlugIdle /\ FileIdle /\ PageInit /\ PathIdle /\ variant # "upload"

RemoveSpec == RemoveInit /\ [][RemoveNext]_vars

PayloadInit == SlugIdle /\ FileIdle /\ PageInit /\ PathIdle

PayloadSpec == PayloadInit /\ [][PayloadNext]_vars

PageSpecInit == SlugIdle /\ FileIdle /\ PageInit /\ PathIdle

PageSpec == PageSpecInit /\ [][PageNext]_vars /\ Answered

Spec == Init /\ [][Next]_vars

\* C10: round trip on the file-backed API: once a POST has been answered 200
\* for post p, every later GET answers 200 with an array that holds an object
\* equal to p.
C10_RoundTrip ==
    (getRes.status # 0 /\ getRes.after > 0) =>
        /\ getRes.status = 200
        /\ getRes.body.kind = "array"
        /\ \A k \in 1..getRes.after : okPosts[k] \in Range(getRes.body.items)

\* C10 witness: two posts have been saved and a later GET lists both
C10_Witness ==
    /\ getRes.after = 2
    /\ okPosts[1] # okPosts[2]
    /\ getRes.status = 200
    /\ Len(getRes.body.items) >= 2


\* the extension of a file name: what follows its last dot, when the name has
\* a dot and something follows it
HasExtension(name) ==
    \E k \in DOMAIN name : name[k] = "." /\ k < Len(name)
                            /\ \A j \in (k + 1)..Len(name) : name[j] # "."

ExtensionOf(name) ==
    LET k == CHOOSE k \in DOMAIN name : name[k] = "." /\ \A j \in (k + 1)..Len(name) : name[j] # "."
    IN  SubSeq(name, k + 1, Len(name))

\* C16: the stored path is prefix/timestamp-randomsuffix.ext, ext being the
\* extension of the file name in lower case, and the default ('dat', 'jpg' in
\* uploadImageAndGetUrl) whenever the name has no extension, a name without
\* any dot included.
C16_PathKeepsExtension ==
    pathPc = 1 =>
        /\ storedPath.ext = IF HasExtension(fileName)
                            THEN [i \in 1..Len(ExtensionOf(fileName)) |->
                                      toLowerCaseChar(ExtensionOf(fileName)[i])]
                            ELSE defaultExt(uploader)
        /\ uploader = "uploadToBucket" =>
               storedPath.parts = <<"prefix", "/", "Date.now()", "-", "random", ".">>

\* C11: when the backing file or table cannot be read, the in-memory list of
\* posts is an empty list, never a value that is no list, and an error
\* indicator is set (errorMsg, or an alert in the upload version).
C11_UnreadableGivesEmptyList ==
    /\ (filePage.pc = "done" /\ filePage.res.status = 500) =>
            filePage.blogPosts = ArrayValue(<<>>)
    /\ (fetch.pc = "done" /\ fetch.error /\ submits = <<>>) =>
            (blogPosts = <<>> /\ IF variant = "upload" THEN alertMsg # Null
                                 ELSE errorMsg # Null)

(***************************************************************************)
(* Properties of the composer                                              *)
(***************************************************************************)
\* the HTML of an editor that holds no text (or no content at all)
HoldsNoText(html) == html \in {<<>>, getHTML(<<>>), quillHTML(<<>>)}

InFlight == {i \in DOMAIN submits : submits[i].pc \in {"upload", "insert"}}

\* C1: a create (insert) request is never issued while any of title, slug,
\* author, category or content is empty, content being empty when the editor
\* holds no text.
C1_NoCreateWithEmptyField ==
    \A i \in DOMAIN submits :
        submits[i].pc = "insert" =>
            /\ ~Falsy(submits[i].payload.title)
            /\ ~Falsy(submits[i].payload.slug)
            /\ ~Falsy(submits[i].payload.author)
            /\ ~Falsy(submits[i].payload.category)
            /\ ~HoldsNoText(submits[i].payload.content)

\* C2: with a cover file selected the insert is issued only after the cover
\* upload succeeded; when the upload fails the call issues no insert, adds no
\* post, sets submitting to false and surfaces an error message.
C2_InsertOnlyAfterUpload ==
    /\ [](\A i \in DOMAIN submits :
            /\ (submits[i].file /\ submits[i].insert # "none") =>
                    (submits[i].upload = "ok" /\ i \in bucket)
            /\ submits[i].upload = "error" =>
                    (submits[i].insert = "none" /\ submits[i].pc = "done"))
    /\ [][\A i \in DOMAIN submits :
            (submits[i].pc = "upload" /\ submits'[i].upload = "error") =>
                /\ submitting' = FALSE
                /\ blogPosts' = blogPosts
                /\ blogsTable' = blogsTable
                /\ IF variant = "upload" THEN alertMsg' # Null ELSE errorMsg' # Null]_vars

\* C2 witness: one submit gave up on a failed cover upload, and a later one has
\* sent its insert after its upload succeeded
C2_Witness ==
    \E i, j \in DOMAIN submits :
        /\ submits[i].upload = "error"
        /\ submits[j].file
        /\ submits[j].upload = "ok"
        /\ submits[j].insert = "sent"

\* C5: submission is disabled while a submission is in flight: at most one
\* handleSubmit call has an upload or an insert outstanding at any time.
C5_OneSubmitInFlight ==
    /\ Cardinality(InFlight) <= 1
    /\ InFlight # {} => (submitting /\ buttonDisabled)

\* C5 witness: a submit is in flight while the form on screen is complete, so
\* that only the submitting flag keeps the button disabled
C5_Witness ==
    /\ InFlight # {}
    /\ ~isDisabledIgnoringSubmitting
    /\ ~missingRequired

FormIsDefault ==
    /\ title = <<>> /\ slug = <<>>
    /\ author = DefaultAuthor /\ category = DefaultCategory
    /\ editor = <<>> /\ content = <<>> /\ coverFile = FALSE

\* C12: once the backend has answered, a submit that passed validation ends
\* either in success (one record more in the list, every form field at its
\* default) or in failure (an error message shown, the list and every form
\* field as they were), and in nothing else.
C12_SuccessOrFailed ==
    [][\A i \in DOMAIN submits :
        (submits[i].pc # "done" /\ submits'[i].pc = "done") =>
            \/ /\ Len(blogPosts') = Len(blogPosts) + 1
               /\ FormIsDefault'
            \/ /\ IF variant = "upload" THEN alertMsg' # Null ELSE errorMsg' # Null
               /\ blogPosts' = blogPosts
               /\ <<title, slug, author, category, editor, content, coverFile>>'
                    = <<title, slug, author, category, editor, content, coverFile>>]_vars

\* a required field of the form is empty (the content: holds no text)
RequiredFieldEmpty ==
    \/ Falsy(title) \/ Falsy(slug) \/ Falsy(author) \/ Falsy(category)
    \/ HoldsNoText(currentContent)

\* C14: a submit invoked while a required field is empty issues no request:
\* no handleSubmit call gets as far as its cover upload or its insert, with
\* or without a cover file selected.
C14_ValidationBeforeNetwork ==
    [][RequiredFieldEmpty =>
        /\ Len(submits') = Len(submits)
        /\ \A i \in DOMAIN submits :
              (submits[i].upload = "none" => submits'[i].upload = "none")]_vars

\* C9: after every title change the slug equals generateSlug(title), and after
\* a manual edit of the slug field the slug equals the value entered, until the
\* next title change.
C9_SlugFollowsTitleUnlessEdited ==
    /\ lastInput.name = "title" => (title = lastInput.value /\ slug = generateSlug(title))
    /\ lastInput.name = "slug" => slug = lastInput.value

(***************************************************************************)
(* Properties of the list                                                  *)
(***************************************************************************)
Occurrences(rows, id) == Cardinality({k \in DOMAIN rows : rows[k].id = id})

\* C3: after a successful create the new post is in the list exactly once, at
\* its head (hosted variant), the posts listed before kept in their order.
C3_NewPostOnceAtHead ==
    [][\A i \in DOMAIN submits :
        (submits[i].pc = "insert" /\ submits[i].insert = "ok" /\ submits'[i].pc = "done") =>
            /\ blogPosts' = <<submits[i].data[1]>> \o blogPosts
            /\ Occurrences(blogPosts', submits[i].data[1].id) = 1]_vars

\* C4: after a failed delete the list is again the list as it was when the
\* delete was requested, the post is listed again and an error message is set.
C4_FailedDeleteRestoresList ==
    [][\A i \in DOMAIN deletes :
        (deletes[i].pc = "delete" /\ deletes[i].answer = "error" /\ deletes'[i].pc = "done") =>
            /\ blogPosts' = deletes[i].seen
            /\ deletes[i].id \in Ids(blogPosts')
            /\ errorMsg' # Null]_vars

\* C4 witness: a delete has failed and the post is listed
C4_Witness ==
    \E i \in DOMAIN deletes :
        /\ deletes[i].pc = "done"
        /\ deletes[i].answer = "error"
        /\ deletes[i].id \in Ids(blogPosts)
        /\ errorMsg # Null

\* C13: every request being answered in the end, loading and submitting
\* always become false again and deletingId always becomes null again, also
\* after a failed load, upload, create or delete.
C13_FlagsClearAgain ==
    /\ loading ~> ~loading
    /\ submitting ~> ~submitting
    /\ (deletingId # NullId) ~> (deletingId = NullId)

\* C13 witness: an upload, a create and a delete have failed and the three
\* flags are clear
C13_Witness ==
    /\ fetch.pc = "done"
    /\ \E i \in DOMAIN submits : submits[i].pc = "done" /\ submits[i].upload = "error"
    /\ \E i \in DOMAIN submits : submits[i].pc = "done" /\ submits[i].insert = "error"
    /\ \E i \in DOMAIN deletes : deletes[i].pc = "done" /\ deletes[i].answer = "error"
    /\ ~loading /\ ~submitting /\ deletingId = NullId

\* C15: no request is sent twice: a handleSubmit call sends at most one upload
\* (exactly one when a cover file is selected) and at most one insert, and a
\* confirmed handleDelete sends exactly one delete, whatever the answers.
C15_NoRetry ==
    /\ \A i \in DOMAIN submits :
          /\ submits[i].uploads = (IF submits[i].file THEN 1 ELSE 0)
          /\ submits[i].inserts <= 1
          /\ submits[i].inserts = 0 => submits[i].insert = "none"
    /\ \A i \in DOMAIN deletes : deletes[i].requests = 1

\* C15 witness: an insert that followed its upload has failed, a delete has
\* failed, and both calls have returned
C15_Witness ==
    /\ \E i \in DOMAIN submits :
          /\ submits[i].pc = "done" /\ submits[i].upload = "ok"
          /\ submits[i].insert = "error"
    /\ \E i \in DOMAIN deletes : deletes[i].pc = "done" /\ deletes[i].answer = "error"

\* rows with the rows of the given id left out, the others in their order
RECURSIVE Without(_, _)
Without(rows, id) ==
    IF rows = <<>> THEN <<>>
    ELSE IF Head(rows).id = id THEN Without(Tail(rows), id)
    ELSE <<Head(rows)>> \o Without(Tail(rows), id)

\* C17: a confirmed delete of id takes out of the list exactly the posts with
\* that id, the others keeping their order (the list is unchanged when no post
\* has the id), and its request deletes from the table the rows of that id only.
C17_DeleteByIdOnly ==
    [][/\ Len(deletes') > Len(deletes) =>
            LET d == deletes'[Len(deletes')]
            IN  /\ blogPosts' = Without(blogPosts, d.id)
                /\ deletingId' = d.id
                /\ blogsTable' = blogsTable
       /\ \A i \in DOMAIN deletes :
            (deletes[i].answer = "sent" /\ deletes'[i].answer # "sent") =>
                /\ deletes'[i].id = deletes[i].id
                /\ blogsTable' = IF deletes'[i].answer = "ok"
                                 THEN Without(blogsTable, deletes[i].id)
                                 ELSE blogsTable]_vars

\* C17 witness: a delete is under way, its post is out of the list and out of
\* the table, and another post is still in both
C17_Witness ==
    \E i \in DOMAIN deletes :
        /\ deletes[i].pc = "delete" /\ deletes[i].answer = "ok"
        /\ deletes[i].id \notin Ids(blogPosts) \cup Ids(blogsTable)
        /\ Ids(blogPosts) \cap Ids(blogsTable) # {}

\* C6: once confirmed, the post is out of the list before the delete request is
\* sent and stays out for as long as that request is in flight.
C6_AbsentWhileDeleting ==
    \A i \in DOMAIN deletes :
        deletes[i].pc = "delete" => deletes[i].id \notin Ids(blogPosts)

(***************************************************************************)
(* The reference transformation of the slug, stated without recursion:     *)
(* lower-case, cut the surrounding whitespace, keep word characters,       *)
(* whitespace and hyphens, then put one hyphen for each maximal run of     *)
(* whitespace.                                                             *)
(***************************************************************************)
RefLower(s) == [i \in 1..Len(s) |-> toLowerCaseChar(s[i])]

RefTrim(s) ==
    LET solid == {i \in 1..Len(s) : ~IsWhitespace(s[i])}
    IN  IF solid = {} THEN <<>>
        ELSE SubSeq(s, CHOOSE i \in solid : \A j \in solid : i <= j,
                       CHOOSE i \in solid : \A j \in solid : i >= j)

RefKeep(s) == SelectSeq(s, LAMBDA c : IsWordChar(c) \/ IsWhitespace(c) \/ c = "-")

RefHyphenate(s) ==
    LET starts == SelectSeq([i \in 1..Len(s) |-> i],
                            LAMBDA i : ~(IsWhitespace(s[i]) /\ i > 1 /\ IsWhitespace(s[i - 1])))
    IN  [j \in 1..Len(starts) |-> IF IsWhitespace(s[starts[j]]) THEN "-" ELSE s[starts[j]]]

RefSlug(s) == RefHyphenate(RefKeep(RefTrim(RefLower(s))))

\* C7: slug derivation is idempotent: deriving a slug from an already derived
\* slug yields the same string, for every input string.
C7_SlugIdempotent == slugPc = 2 => slugTwice = slugOnce

\* C7 witness: a second derivation has run on a slug that differs from its input
C7_Witness == slugPc = 2 /\ slugOnce # slugIn /\ slugOnce # <<>> /\ "-" \in Range(slugOnce)

\* C8: generateSlug equals the reference transformation (lower-case, trim,
\* delete what is no word character, whitespace or hyphen, one hyphen per
\* maximal whitespace run), and "Hello, World!  2024" yields "hello-world-2024".
C8_SlugMatchesReference ==
    slugPc >= 1 =>
        /\ slugOnce = RefSlug(slugIn)
        /\ (slugIn = HelloWorld2024 => slugOnce = HelloWorld2024Slug)

\* C8 witness: the example of the specification has been derived
C8_Witness == slugPc >= 1 /\ slugIn = HelloWorld2024 /\ slugOnce = HelloWorld2024Slug

\* the array a file text holds
ItemsOf(file) == JSONparse(file.text).value.items

\* C18: a POST answered 200 leaves in the file the array it held before with
\* the submitted object added as its last element, the earlier elements
\* unchanged and in their order; a GET returns the posts saved in the order
\* in which they were saved.
C18_PostAppendsOne ==
    /\ [][\A i \in DOMAIN postReqs :
            (postReqs[i].pc = "json" /\ postReqs'[i].status = 200) =>
                /\ blogFile'.readable
                /\ JSONparse(blogFile'.text).ok
                /\ JSONparse(blogFile'.text).value.kind = "array"
                /\ Len(ItemsOf(blogFile')) = Len(ItemsOf(blogFile)) + 1
                /\ SubSeq(ItemsOf(blogFile'), 1, Len(ItemsOf(blogFile))) = ItemsOf(blogFile)
                /\ stringifyPost(ItemsOf(blogFile')[Len(ItemsOf(blogFile'))]) = postReqs[i].body]_vars
    /\ [](getRes.status = 200 /\ getRes.after > 0 =>
            LET items == getRes.body.items
            IN  /\ Len(items) >= getRes.after
                /\ SubSeq(items, Len(items) - getRes.after + 1, Len(items))
                      = SubSeq(okPosts, 1, getRes.after))

\* C18 witness: two POSTs were answered 200 on a file that held a post, and a
\* GET served after them returned the three posts
C18_Witness ==
    /\ getRes.status = 200
    /\ getRes.after = 2
    /\ Len(getRes.body.items) = 3
    /\ getRes.body.items[2] # getRes.body.items[3]

\* a character a URL-safe slug may hold: a lower-case letter, a digit, an
\* underscore or a hyphen
IsUrlSafeChar(c) == c \in Range(LowerLetters) \cup Digits \cup {"_", "-"}

\* C19: every slug sent in a create request consists only of lower-case
\* letters, digits, underscores and hyphens, whatever title edits and
\* slug-field edits preceded the submit.
C19_SentSlugIsUrlSafe ==
    \A i \in DOMAIN submits :
        submits[i].pc = "insert" =>
            \A k \in 1..Len(submits[i].payload.slug) :
                IsUrlSafeChar(submits[i].payload.slug[k])

\* the slug is the slug of a post in the list
SlugListed(sl) == \E k \in DOMAIN blogPosts : blogPosts[k].slug = sl

\* C20: slugs need not be unique: a filled form whose slug is the slug of a
\* listed post is not refused by handleSubmit, and when the insert of such a
\* create succeeds the list holds afterwards every post it held and the new
\* row.
C20_DuplicateSlugAccepted ==
    /\ [](~submitting /\ ~RequiredFieldEmpty /\ SlugListed(slug) => ~rejected)
    /\ [][\A i \in DOMAIN submits :
            (/\ submits[i].pc = "insert"
             /\ submits[i].insert = "ok"
             /\ submits'[i].pc = "done"
             /\ SlugListed(submits[i].payload.slug)) =>
                /\ Len(blogPosts') = Len(blogPosts) + 1
                /\ \A k \in DOMAIN blogPosts : blogPosts[k] \in Range(blogPosts')
                /\ submits[i].data[1] \in Range(blogPosts')
                /\ submits[i].data[1].slug = submits[i].payload.slug]_vars

\* C20 witness: the list holds two created posts of different ids and the same
\* slug
C20_Witness ==
    \E j, k \in DOMAIN blogPosts :
        /\ j < k
        /\ blogPosts[j].id > NumSeeds
        /\ blogPosts[k].id > NumSeeds
        /\ blogPosts[j].id # blogPosts[k].id
        /\ blogPosts[j].slug = blogPosts[k].slug
        /\ blogPosts[j].slug # <<>>

\* C21: the insert payload carries no empty string: title, slug, author,
\* category and content are non-empty, the date is the day of the date field
\* or, when that field is empty, the current day, and the excerpt and image
\* keys are left out when their value is empty.
C21_PayloadHasNoEmptyString ==
    /\ [](\A i \in DOMAIN submits :
            submits[i].pc = "insert" =>
                LET p == submits[i].payload
                IN  /\ p.title # <<>>
                    /\ p.slug # <<>>
                    /\ p.author # ""
                    /\ p.category # ""
                    /\ p.content # <<>>
                    /\ p.date # EmptyDate
                    /\ p.excerpt # <<>> => p.excerpt[1] # <<>>
                    /\ p.image # <<>> => p.image[1] # "")
    /\ [][Len(submits') = Len(submits) + 1 =>
            LET p == submits'[Len(submits')].payload
            IN  /\ p.date = IF date = EmptyDate THEN Today ELSE date
                /\ p.excerpt = IF excerpt = <<>> THEN <<>> ELSE <<excerpt>>]_vars

\* C21 witness: a create sent with the date field cleared and no excerpt and no
\* cover: its payload has the current day and neither optional key
C21_Witness ==
    \E i \in DOMAIN submits :
        /\ submits[i].pc = "insert"
        /\ date = EmptyDate
        /\ excerpt = <<>>
        /\ submits[i].payload.date = Today
        /\ submits[i].payload.excerpt = <<>>
        /\ submits[i].payload.image = <<>>

\* C22: in the upload version the slug stays editable: after a change event on
\* the slug input with value v, newBlog.slug is v.
C22_UploadSlugEditable ==
    (variant = "upload" /\ lastInput.name = "slug") => slug = lastInput.value

\* every create whose insert stored a row has run to its end
CreatesCompleted ==
    \A i \in DOMAIN submits : submits[i].insert = "ok" => submits[i].pc = "done"

\* C23: a post that a successful create added to the list stays in the list
\* until the user deletes that post: a step that takes a created post out of
\* the list is a confirmed handleDelete of that post, never the rollback of
\* another post's failed delete nor the late result of the initial load.
C23_CreatedPostStaysListed ==
    [][\A k \in DOMAIN blogPosts :
          (/\ blogPosts[k].id > NumSeeds
           /\ CreatesCompleted
           /\ blogPosts[k].id \notin Ids(blogPosts')) =>
              /\ Len(deletes') = Len(deletes) + 1
              /\ deletes'[Len(deletes')].id = blogPosts[k].id]_vars

\* no load, create or delete call is under way
NothingInFlight ==
    /\ fetch.pc = "done"
    /\ \A i \in DOMAIN submits : submits[i].pc = "done"
    /\ \A i \in DOMAIN deletes : deletes[i].pc = "done"

\* C24: whenever no load, create or delete is in flight and the initial load
\* succeeded, the list holds exactly the posts the table holds. Stated for the
\* case the claim singles out, deletes alone (no create was ever started): a
\* post whose delete the table confirmed is not listed again after an
\* overlapping delete of another post failed.
C24_ListMatchesTableWhenQuiet ==
    (NothingInFlight /\ ~fetch.error /\ submits = <<>>) =>
        Range(blogPosts) = Range(blogsTable)

\* C25: deletingId tracks the deletes in flight: while the delete request of a
\* post is unanswered, deletingId is that post's id, so that the Remove control
\* of the post, where the post is listed, is disabled and no second request
\* for the id can be issued; also when deletes of several posts overlap.
C25_OutstandingDeleteDisablesRemove ==
    \A i \in DOMAIN deletes :
        (deletes[i].answer = "sent" /\ deletes[i].id \in Ids(blogPosts)) =>
            deletingId = deletes[i].id

\* C26: in the hosted variant the list is ordered by date descending in every
\* reachable state: after the initial load, and after successful creates (with
\* any chosen date) and deletes.
C26_ListDateDescending ==
    \A k \in 1..(Len(blogPosts) - 1) : blogPosts[k].date >= blogPosts[k + 1].date

\* how often a post stands in a sequence of posts
Copies(posts, p) == Cardinality({k \in DOMAIN posts : posts[k] = p})

\* C27: no update is lost between POSTs that one server process handles
\* concurrently: whatever the interleaving, the stored array holds every post
\* whose POST was answered 200, as many times as it was saved.
C27_NoLostUpdate ==
    okPosts # <<>> =>
        /\ blogFile.readable
        /\ JSONparse(blogFile.text).ok
        /\ JSONparse(blogFile.text).value.kind = "array"
        /\ \A k \in DOMAIN okPosts :
              Copies(ItemsOf(blogFile), okPosts[k]) >= Copies(okPosts, okPosts[k])

\* C27 witness: two POSTs of different posts overlapped, the one received
\* second being answered first, both with 200, and the file holds both posts
C27_Witness ==
    /\ Len(postReqs) = 2
    /\ postReqs[1].status = 200
    /\ postReqs[2].status = 200
    /\ postReqs[1].body # postReqs[2].body
    /\ Len(okPosts) = 2
    /\ stringifyPost(okPosts[1]) = postReqs[2].body
    /\ stringifyPost(okPosts[2]) = postReqs[1].body
    /\ okPosts[1] \in Range(ItemsOf(blogFile))
    /\ okPosts[2] \in Range(ItemsOf(blogFile))

\* the request body cannot be parsed, the file cannot be read or parsed, or the
\* stored JSON value is no array
CannotAppend(body) ==
    \/ ~JSONparse(body).ok
    \/ ~blogFile.readable
    \/ ~JSONparse(blogFile.text).ok
    \/ JSONparse(blogFile.text).value.kind # "array"

\* C28: a POST answered 500 because its body cannot be parsed, the file cannot
\* be read or parsed, or the stored value is no array leaves the file as it
\* was; a GET (of any client, or of the page on mount) never changes the file.
C28_FailedPostKeepsFile ==
    /\ [][\A i \in DOMAIN postReqs :
            (/\ postReqs[i].pc = "json"
             /\ postReqs'[i].status = 500
             /\ CannotAppend(postReqs[i].body)) => blogFile' = blogFile]_vars
    /\ [][(getRes' # getRes \/ filePage' # filePage) => blogFile' = blogFile]_vars

\* C28 witness: the file holds a JSON object; a POST with an unparsable body and
\* a POST with a well-formed body were both answered 500, a GET was answered,
\* and the file still holds the object
C28_Witness ==
    /\ \E i, j \in DOMAIN postReqs :
          /\ postReqs[i].status = 500
          /\ ~JSONparse(postReqs[i].body).ok
          /\ postReqs[j].status = 500
          /\ JSONparse(postReqs[j].body).ok
    /\ getRes.status = 200
    /\ blogFile = ReadableFile(JSONstringify(ObjectValue(SeedPost)))

====
